---- MODULE Spec2Model ----
(***************************************************************************)
(* Model of the large-javascript-libraries audit (the Matching & Ranking   *)
(* Engine): LargeJavascriptLibraries.getSuggestions and                    *)
(* LargeJavascriptLibraries.audit, over a bundlephobia database (libStats),*)
(* the suggestion groups (librarySuggestions) and the detected stacks      *)
(* (artifacts.Stacks).                                                     *)
(***************************************************************************)
EXTENDS Integers, Sequences, FiniteSets, TLC

VARIABLES
  libStats,            \* the bundlephobia database: name -> version key -> record
  librarySuggestions,  \* the suggestion groups, in key order
  Stacks,              \* artifacts.Stacks, the detected-library feed
  foundLibraries,      \* Stacks filtered on detector === 'js'
  idx,                 \* position of the for-of loop in foundLibraries
  seenLibraries,       \* the dedup Set
  libraryPairings,     \* the {original, suggestion} pairs pushed so far
  tableDetails,        \* the rows handed to makeTableDetails
  score,               \* the product's score; -1 until audit returns
  pc,                  \* "start", "loop", "table", "return", "done", "threw"
  calls,               \* concurrent audits: invocation -> its artifacts and locals
  \* The database builder script (collectLibraryStats and its main loop)
  database,            \* the in-memory database object: name -> key -> value
  file,                \* the contents of bundlephobia-database.json
  index,               \* i + 1 of the loop over librarySuggestions
  bpc,                 \* "main", "versions", "stats", "hung", "saved", "idle"
  now,                 \* Date.now(), in hours
  lastScraped,         \* local of collectLibraryStats
  versions,            \* local: the resolved version list
  vIndex,              \* position of the for-of loop in versions
  libraries,           \* local: the validated records
  run,                 \* number of the builder run
  returned,            \* history: what the service returned for the current package
  visited,             \* history: the packages visited in this run
  previous             \* history: the packages visited in the run before

builderVars == <<database, file, index, bpc, now, lastScraped, versions, vIndex,
                 libraries, run, returned, visited, previous>>

\* What a single audit does not touch.
otherVars == <<calls, builderVars>>

vars == <<libStats, librarySuggestions, Stacks, foundLibraries, idx,
          seenLibraries, libraryPairings, tableDetails, score, pc, otherVars>>

(***************************************************************************)
(* Bounds and input domains                                                *)
(***************************************************************************)
MaxStacks == 3

\* An absent npm name or version (undefined or '' in the artifact): falsy.
None == ""

\* The repository URL of each package.
Repository ==
  "moment" :> "github.com/moment/moment" @@ "dayjs" :> "github.com/iamkun/dayjs" @@
  "luxon" :> "github.com/moment/luxon" @@ "unknown-lib" :> "github.com/unknown/lib"

Rec(n, v, g) == [name |-> n, version |-> v, gzip |-> g, repository |-> Repository[n]]

\* Entries the database may hold for each package; "absent" is no entry at
\* all. An entry without the key "latest" is data the audit can be handed.
MomentEntries ==
  { [latest |-> Rec("moment", "2.30.1", 20000)],
    [latest |-> Rec("moment", "2.30.1", 3000)],
    "latest" :> Rec("moment", "2.30.1", 20000) @@ "2.29.0" :> Rec("moment", "2.29.0", 21000),
    "2.29.0" :> Rec("moment", "2.29.0", 21000) }

DayjsEntries ==
  { [latest |-> Rec("dayjs", "1.8.0", 3000)],
    "1.7.0" :> Rec("dayjs", "1.7.0", 3000) }

LuxonEntries ==
  { [latest |-> Rec("luxon", "1.24.1", 8000)] }

UnknownEntries ==
  { [latest |-> Rec("unknown-lib", "0.1.0", 20000)] }

Names == {"moment", "dayjs", "luxon", "unknown-lib"}

EntriesOf ==
  "moment" :> MomentEntries @@ "dayjs" :> DayjsEntries @@
  "luxon" :> LuxonEntries @@ "unknown-lib" :> UnknownEntries

\* All databases: each package has one of its entries or no entry.
Catalogs ==
  UNION { { f \in [S -> UNION {EntriesOf[n] : n \in Names}] :
              \A n \in S : f[n] \in EntriesOf[n] } :
          S \in { T \cup {"unknown-lib"} : T \in SUBSET {"moment", "dayjs", "luxon"} } }

\* The suggestion groups: a library's alternatives are the other members of
\* the first group that lists it, in the group's (curator) order.
SuggestionMaps ==
  { << <<"moment", "dayjs", "luxon">> >>,
    << <<"luxon">>, <<"moment", "luxon", "dayjs">> >>,
    << <<"moment", "dayjs">>, <<"luxon", "dayjs", "moment">> >> }

Stack(n, v, d) == [npm |-> n, version |-> v, detector |-> d]

DetectedStacks ==
  { Stack("moment", None, "js"),
    Stack("moment", "2.29.0", "js"),
    Stack("moment", "2.29.0", "webpack"),
    Stack("luxon", None, "js"),
    Stack("unknown-lib", None, "js"),
    Stack(None, None, "js") }

StackLists == UNION { [1..n -> DetectedStacks] : n \in 0..MaxStacks }

(***************************************************************************)
(* Helpers for JavaScript's object and array primitives                    *)
(***************************************************************************)
\* obj[key] is truthy: the key is present (every stored value is an object).
Has(obj, key) == key \in DOMAIN obj

\* Array.prototype.includes
Includes(arr, x) == \E k \in 1..Len(arr) : arr[k] = x

Min(S) == CHOOSE x \in S : \A y \in S : x <= y

(***************************************************************************)
(* LargeJavascriptLibraries.getSuggestions                                 *)
(***************************************************************************)
\* Variant that keeps every member of the group, the library itself included.
isAnyMember(suggestion, library) == TRUE

\* filter(suggestion => suggestion !== library.npm)
isAnother(suggestion, library) == suggestion # library.npm

\* Variant without the membership test: the first group, whatever the library.
getSuggestionsOfFirstGroup(library) ==
  SelectSeq(librarySuggestions[1], LAMBDA s : isAnother(s, library))

getSuggestions(library) ==
  LET hits == { k \in 1..Len(librarySuggestions) :
                  Includes(librarySuggestions[k], library.npm) }
  IN  IF hits = {} THEN <<>>
      ELSE SelectSeq(librarySuggestions[Min(hits)], LAMBDA s : isAnother(s, library))

(***************************************************************************)
(* LargeJavascriptLibraries.audit                                          *)
(***************************************************************************)
\* Variant that takes the records of every detector.
isAnyStack(stack) == TRUE

\* artifacts.Stacks.filter(stack => stack.detector === 'js')
isJsStack(stack) == stack.detector = "js"

\* Variant that filters artifacts.Stacks in place.
StacksFilteredInPlace(stacks) == SelectSeq(stacks, isJsStack)

\* Array.prototype.filter returns a new array and leaves its receiver alone.
StacksAfterFilter(stacks) == stacks

\* Variant without the dedup test.
neverSeen(library) == FALSE

\* seenLibraries.has(library.npm)
alreadySeen(library) == library.npm \in seenLibraries

\* The guard of the first `continue` of the loop.
skipsLibrary(library) ==
  \/ library.npm = None
  \/ ~Has(libStats, library.npm)
  \/ Len(getSuggestions(library)) = 0

\* const version = !!library.version && !!libStats[npm][library.version]
\*   ? library.version : 'latest'
\* Variant that ignores the detected version.
resolveAlwaysLatest(library) == "latest"

resolveVersion(library) ==
  IF library.version # None /\ Has(libStats[library.npm], library.version)
  THEN library.version
  ELSE "latest"

\* Evaluating isSmallerSuggestion reads .gzip of libStats[suggestion]['latest']
\* and of libStats[library.npm][version]; either being undefined is a
\* TypeError. The right operand of && is not evaluated when
\* libStats[suggestion] is undefined.
suggestionThrows(suggestion, library, version) ==
  /\ Has(libStats, suggestion)
  /\ \/ ~Has(libStats[suggestion], "latest")
     \/ ~Has(libStats[library.npm], version)

\* Variant without the size comparison (every alternative in the database).
isAnySuggestion(suggestion, library, version) ==
  Has(libStats, suggestion)

\* !!libStats[suggestion] &&
\*   libStats[suggestion]['latest'].gzip < libStats[library.npm][version].gzip

isSmallerSuggestion(suggestion, library, version) ==
  /\ Has(libStats, suggestion)
  /\ libStats[suggestion]["latest"].gzip < libStats[library.npm][version].gzip

\* Variant that adds the pairing at the front.
unshift(pairings, pairing) == <<pairing>> \o pairings

\* libraryPairings.push(pairing)
push(pairings, pairing) == Append(pairings, pairing)

\* suggestions.map(suggestion => {... libraryPairings.push(...) ...}),
\* left to right, stopping at the first TypeError.
RECURSIVE pushPairings(_, _, _, _)
pushPairings(suggestions, library, version, pairings) ==
  IF suggestions = <<>> THEN [pairings |-> pairings, threw |-> FALSE]
  ELSE LET suggestion == Head(suggestions) IN
    IF suggestionThrows(suggestion, library, version)
    THEN [pairings |-> pairings, threw |-> TRUE]
    ELSE pushPairings(Tail(suggestions), library, version,
           IF isSmallerSuggestion(suggestion, library, version)
           THEN push(pairings,
                  [original |-> libStats[library.npm][version],
                   suggestion |-> libStats[suggestion]["latest"]])
           ELSE pairings)

\* Variant with the operands swapped.
savingsReversed(original, suggestion) == suggestion.gzip - original.gzip

\* savings: original.gzip - suggestion.gzip
savings(original, suggestion) == original.gzip - suggestion.gzip

\* Variant with the two scores swapped.
scoreInverted(pairings) == IF Len(pairings) > 0 THEN 1 ELSE 0

\* score: libraryPairings.length > 0 ? 0 : 1
scoreOf(pairings) == IF Len(pairings) > 0 THEN 0 ELSE 1

\* Variant that never restarts the numbering.
countOn(pairings, i, currentAlternative) == currentAlternative + 1

\* if (i > 0) { same original as the row before ? currentAlternative++
\*              : currentAlternative = 1 } else currentAlternative++
nextAlternative(pairings, i, currentAlternative) ==
  IF i > 1
  THEN IF pairings[i].original.name = pairings[i - 1].original.name
       THEN currentAlternative + 1
       ELSE 1
  ELSE currentAlternative + 1

\* The table rows: currentAlternative numbers the rows of one original and
\* the original's name and URL are shown on its first row only.
RECURSIVE makeRows(_, _, _, _)
makeRows(pairings, i, currentAlternative, rows) ==
  IF i > Len(pairings) THEN rows
  ELSE LET cur == nextAlternative(pairings, i, currentAlternative)
           original == pairings[i].original
           suggestion == pairings[i].suggestion
       IN makeRows(pairings, i + 1, cur,
            Append(rows,
              [name |-> IF cur = 1 THEN original.name ELSE "",
               url |-> IF cur = 1 THEN original.repository ELSE "",
               number |-> cur,
               suggestion |-> suggestion.name,
               savings |-> savings(original, suggestion)]))

\* The builder is not running.
BuilderIdle ==
  /\ database = <<>>
  /\ file = <<>>
  /\ index = 0
  /\ bpc = "idle"
  /\ now = 0
  /\ lastScraped = 0
  /\ versions = <<>>
  /\ vIndex = 0
  /\ libraries = <<>>
  /\ run = 0
  /\ returned = <<>>
  /\ visited = <<>>
  /\ previous = <<>>

\* No concurrent audits are running, and no builder.
OtherIdle == calls = <<>> /\ BuilderIdle

Init ==
  /\ libStats \in Catalogs
  /\ librarySuggestions \in SuggestionMaps
  /\ Stacks \in StackLists
  /\ foundLibraries = <<>>
  /\ idx = 0
  /\ seenLibraries = {}
  /\ libraryPairings = <<>>
  /\ tableDetails = <<>>
  /\ score = -1
  /\ pc = "start"
  /\ OtherIdle

\* const libraryPairings = []; const foundLibraries = Stacks.filter(...);
\* const seenLibraries = new Set();
FilterStacks ==
  /\ pc = "start"
  /\ foundLibraries' = SelectSeq(Stacks, isJsStack)
  /\ Stacks' = StacksAfterFilter(Stacks)
  /\ idx' = 1
  /\ seenLibraries' = {}
  /\ libraryPairings' = <<>>
  /\ pc' = "loop"
  /\ UNCHANGED <<libStats, librarySuggestions, tableDetails, score>>
  /\ UNCHANGED otherVars

\* One iteration of `for (const library of foundLibraries)`.
LoopIteration ==
  /\ pc = "loop"
  /\ idx <= Len(foundLibraries)
  /\ LET library == foundLibraries[idx] IN
       IF skipsLibrary(library) \/ alreadySeen(library)
       THEN /\ idx' = idx + 1
            /\ UNCHANGED <<seenLibraries, libraryPairings, pc>>
       ELSE LET out == pushPairings(getSuggestions(library), library,
                                    resolveVersion(library), libraryPairings)
            IN /\ seenLibraries' = seenLibraries \cup {library.npm}
               /\ libraryPairings' = out.pairings
               /\ IF out.threw
                  THEN pc' = "threw" /\ idx' = idx
                  ELSE pc' = "loop" /\ idx' = idx + 1
  /\ UNCHANGED <<libStats, librarySuggestions, Stacks, foundLibraries,
                 tableDetails, score>>
  /\ UNCHANGED otherVars

\* The for-of loop is exhausted.
LoopExit ==
  /\ pc = "loop"
  /\ idx > Len(foundLibraries)
  /\ pc' = "table"
  /\ UNCHANGED <<libStats, librarySuggestions, Stacks, foundLibraries, idx,
                 seenLibraries, libraryPairings, tableDetails, score>>
  /\ UNCHANGED otherVars

\* The loop over libraryPairings that fills tableDetails.
BuildTable ==
  /\ pc = "table"
  /\ tableDetails' = makeRows(libraryPairings, 1, 0, <<>>)
  /\ pc' = "return"
  /\ UNCHANGED <<libStats, librarySuggestions, Stacks, foundLibraries, idx,
                 seenLibraries, libraryPairings, score>>
  /\ UNCHANGED otherVars

\* return {score: libraryPairings.length > 0 ? 0 : 1, details}
Return ==
  /\ pc = "return"
  /\ score' = scoreOf(libraryPairings)
  /\ pc' = "done"
  /\ UNCHANGED <<libStats, librarySuggestions, Stacks, foundLibraries, idx,
                 seenLibraries, libraryPairings, tableDetails>>
  /\ UNCHANGED otherVars

Next ==
  \/ FilterStacks
  \/ LoopIteration
  \/ LoopExit
  \/ BuildTable
  \/ Return

Spec == Init /\ [][Next]_vars

(***************************************************************************)
(* Properties of the audit                                                 *)
(***************************************************************************)
PairingIndices == 1..Len(libraryPairings)

\* The audit has left the loop without a TypeError.
LoopCompleted == pc \in {"table", "return", "done"}

\* The name occurs in some suggestion group.
InSuggestionMap(n) ==
  \E k \in 1..Len(librarySuggestions) : Includes(librarySuggestions[k], n)

\* The first record of foundLibraries that carries the name.
FirstOccurrence(n) ==
  foundLibraries[Min({ i \in 1..Len(foundLibraries) : foundLibraries[i].npm = n })]

Occurs(n) == \E i \in 1..Len(foundLibraries) : foundLibraries[i].npm = n

\* C1: every alternative the audit surfaces has a gzip size strictly less
\* than the gzip size of the original record it is paired with, in the
\* pairings and in the table rows built from them.
C1_AlternativeStrictlySmaller ==
  \A k \in PairingIndices :
    LET original == libraryPairings[k].original IN
      /\ libraryPairings[k].suggestion.gzip < original.gzip
      /\ Occurs(original.name)
      /\ original \in { libStats[original.name][v] : v \in DOMAIN libStats[original.name] }

\* A finished audit that surfaced something and also met a candidate that is
\* in the database but is not smaller than the processed original.
C1_Witness ==
  /\ pc = "done"
  /\ Len(libraryPairings) > 0
  /\ \E n \in seenLibraries :
       LET library == FirstOccurrence(n)
           suggestions == getSuggestions(library)
       IN \E j \in 1..Len(suggestions) :
            /\ Has(libStats, suggestions[j])
            /\ libStats[suggestions[j]]["latest"].gzip >=
                 libStats[n][resolveVersion(library)].gzip

\* C2: within the rows of one original, the alternatives are in ascending
\* order of gzip size.
C2_SortedAscending ==
  \A k \in PairingIndices :
    (k > 1 /\ libraryPairings[k].original.name = libraryPairings[k - 1].original.name)
      => libraryPairings[k - 1].suggestion.gzip <= libraryPairings[k].suggestion.gzip

\* C3: a detected library without a package name, or whose name is in no
\* suggestion group, never is the original of a pairing; when the input holds
\* only such libraries the result is empty and the audit passes with score 1.
C3_AbsentFromMapNoPairing ==
  /\ \A k \in PairingIndices :
       /\ libraryPairings[k].original.name # None
       /\ InSuggestionMap(libraryPairings[k].original.name)
  /\ ( /\ pc = "done"
       /\ \A i \in 1..Len(Stacks) :
            Stacks[i].npm = None \/ ~InSuggestionMap(Stacks[i].npm) )
     => /\ libraryPairings = <<>>
        /\ tableDetails = <<>>
        /\ score = 1

\* A finished audit of a non-empty input of such libraries only, one of which
\* has an entry in the database, with smaller packages in the database.
C3_Witness ==
  /\ pc = "done"
  /\ score = 1
  /\ \E i \in 1..Len(Stacks) : Stacks[i].npm = None
  /\ \E i \in 1..Len(Stacks) :
       /\ Stacks[i].npm # None
       /\ isJsStack(Stacks[i])
       /\ Has(libStats, Stacks[i].npm)
  /\ \A i \in 1..Len(Stacks) :
       Stacks[i].npm = None \/ ~InSuggestionMap(Stacks[i].npm)
  /\ Has(libStats, "dayjs")

\* The rows of one original, in output order.
RowsOf(n) == SelectSeq(libraryPairings, LAMBDA p : p.original.name = n)

\* The record the version key resolves to for a record of foundLibraries,
\* written out from the contract: the detected version when it is a key of the
\* package's entry, "latest" otherwise.
OriginalKey(library) ==
  IF library.version \in DOMAIN libStats[library.npm]
  THEN library.version
  ELSE "latest"

\* C4: when a package name occurs several times among the considered
\* records, only its first occurrence is processed: every pairing of that
\* name carries the record resolved from the first occurrence's version, no
\* (original, alternative) pair is emitted twice, and after the loop the rows
\* of the name are those of its first occurrence alone.
C4_FirstOccurrenceOnly ==
  /\ \A k \in PairingIndices :
       LET p == libraryPairings[k]
           n == p.original.name
       IN /\ Occurs(n)
          /\ p.original = libStats[n][OriginalKey(FirstOccurrence(n))]
          /\ \A j \in PairingIndices :
               ( /\ j # k
                 /\ libraryPairings[j].original.name = n )
               => libraryPairings[j].suggestion.name # p.suggestion.name
  /\ LoopCompleted =>
       \A n \in Names :
         Len(RowsOf(n)) <= Len(getSuggestions([npm |-> n]))

\* A finished audit whose input repeats a name with versions that resolve to
\* different records, and that emitted alternatives for that name.
C4_Witness ==
  /\ pc = "done"
  /\ \E i, j \in 1..Len(foundLibraries) :
       /\ i < j
       /\ foundLibraries[i].npm = foundLibraries[j].npm
       /\ Has(libStats, foundLibraries[i].npm)
       /\ OriginalKey(foundLibraries[i]) # OriginalKey(foundLibraries[j])
       /\ Len(RowsOf(foundLibraries[i].npm)) > 0

\* C5: the original record of a pairing is the database record of the
\* detected version when that version is a key of the package's entry, and
\* the "latest" record when the version is missing or is no key; a TypeError
\* is never due to the detected version being missing or unknown: when the
\* audit throws while the entry of the library has "latest" (or its detected
\* version), some alternative's entry has no "latest". With moment latest
\* 20000 and 2.29.0 21000, dayjs 3000 and luxon 8000, moment@2.29.0 yields
\* the savings 18000 (dayjs) and 13000 (luxon).
C5_VersionResolution ==
  /\ ( /\ pc = "done"
       /\ foundLibraries = <<Stack("moment", "2.29.0", "js")>>
       /\ librarySuggestions = << <<"moment", "dayjs", "luxon">> >>
       /\ {"moment", "dayjs", "luxon"} \subseteq DOMAIN libStats
       /\ DOMAIN libStats["moment"] = {"latest", "2.29.0"} )
     => /\ Len(tableDetails) = 2
        /\ tableDetails[1].suggestion = "dayjs" /\ tableDetails[1].savings = 18000
        /\ tableDetails[2].suggestion = "luxon" /\ tableDetails[2].savings = 13000
  /\ \A k \in PairingIndices :
       LET p == libraryPairings[k]
           n == p.original.name
       IN \E i \in 1..Len(foundLibraries) :
            LET library == foundLibraries[i] IN
              /\ library.npm = n
              /\ IF library.version # None /\ library.version \in DOMAIN libStats[n]
                 THEN p.original = libStats[n][library.version]
                 ELSE /\ "latest" \in DOMAIN libStats[n]
                      /\ p.original = libStats[n]["latest"]
  /\ pc = "threw" =>
       LET library == foundLibraries[idx]
           suggestions == getSuggestions(library)
       IN ( \/ library.version \in DOMAIN libStats[library.npm]
            \/ "latest" \in DOMAIN libStats[library.npm] )
          => \E j \in 1..Len(suggestions) :
               /\ Has(libStats, suggestions[j])
               /\ ~Has(libStats[suggestions[j]], "latest")

\* A finished audit that fell back to "latest" for a library detected with a
\* version the entry has no key for, and emitted alternatives for it.
C5_Witness ==
  /\ pc = "done"
  /\ \E n \in seenLibraries :
       /\ FirstOccurrence(n).version # None
       /\ ~Has(libStats[n], FirstOccurrence(n).version)
       /\ \E k \in PairingIndices : libraryPairings[k].original = libStats[n]["latest"]

\* C6: the audit never raises for missing database records.
C6_NeverRaises == pc # "threw"

\* C7: the savings of every row is the gzip size of the resolved original
\* record (detected version, or latest) minus the gzip size of the
\* alternative's "latest" record, and is a positive integer.
C7_SavingsIsDifference ==
  pc \in {"return", "done"} =>
    /\ Len(tableDetails) = Len(libraryPairings)
    /\ \A k \in 1..Len(tableDetails) :
         LET n == libraryPairings[k].original.name
             alt == tableDetails[k].suggestion
         IN /\ libraryPairings[k].suggestion.name = alt
            /\ tableDetails[k].savings =
                 libStats[n][OriginalKey(FirstOccurrence(n))].gzip
                   - libStats[alt]["latest"].gzip
            /\ tableDetails[k].savings \in Nat \ {0}

\* A returned table with a row whose original was resolved from a detected
\* version other than "latest".
C7_Witness ==
  /\ pc = "done"
  /\ \E k \in 1..Len(tableDetails) :
       LET n == libraryPairings[k].original.name IN
         /\ OriginalKey(FirstOccurrence(n)) # "latest"
         /\ Has(libStats[n], "latest")
         /\ libStats[n][OriginalKey(FirstOccurrence(n))].gzip # libStats[n]["latest"].gzip
         /\ tableDetails[k].savings > 0

\* Position of the first considered record that carries the name.
FirstIndex(n) == Min({ i \in 1..Len(foundLibraries) : foundLibraries[i].npm = n })

\* C8: pairings are in the order in which their originals first appear among
\* the considered records, and the rows of one original are contiguous.
C8_InputOrder ==
  \A j, k \in PairingIndices :
    LET a == libraryPairings[j].original.name
        b == libraryPairings[k].original.name
    IN /\ (j < k /\ a # b) => (Occurs(a) /\ Occurs(b) /\ FirstIndex(a) < FirstIndex(b))
       /\ (j < k /\ a = b) =>
            \A m \in j..k : libraryPairings[m].original.name = a

\* A finished audit with rows for two originals, one of them with two rows.
C8_Witness ==
  /\ pc = "done"
  /\ \E j, k \in PairingIndices :
       /\ libraryPairings[j].original.name # libraryPairings[k].original.name
       /\ Len(RowsOf(libraryPairings[j].original.name)) >= 2

\* An alternative of the library that is in the database with a "latest"
\* record strictly smaller than the library's resolved record.
HasSurvivor(library) ==
  LET suggestions == getSuggestions(library)
      key == OriginalKey(library)
  IN \E j \in 1..Len(suggestions) :
       /\ Has(libStats, suggestions[j])
       /\ Has(libStats[suggestions[j]], "latest")
       /\ Has(libStats[library.npm], key)
       /\ libStats[suggestions[j]]["latest"].gzip < libStats[library.npm][key].gzip

\* C9: after the loop, a name has rows exactly when its first considered
\* record is in the database and has a surviving alternative; the returned
\* score is 0 exactly when some pairing was emitted, and 1 otherwise.
C9_OutputIffSurvivor ==
  /\ LoopCompleted =>
       \A n \in Names \cup {None} :
         (Len(RowsOf(n)) > 0) <=>
           ( /\ n # None
             /\ Occurs(n)
             /\ Has(libStats, n)
             /\ HasSurvivor(FirstOccurrence(n)) )
  /\ pc = "done" =>
       /\ score \in {0, 1}
       /\ score = 0 <=> Len(libraryPairings) > 0
  /\ pc # "done" => score = -1

\* A finished audit in which a processed library contributed nothing while
\* another one did, so that the audit fails.
C9_Witness ==
  /\ pc = "done"
  /\ score = 0
  /\ \E n \in seenLibraries : Len(RowsOf(n)) = 0

\* C10: no step of the audit changes the database, the suggestion groups or
\* the detected-library list.
C10_InputsUnchanged ==
  [][ /\ libStats' = libStats
      /\ librarySuggestions' = librarySuggestions
      /\ Stacks' = Stacks ]_vars

\* A finished audit that filtered a record out of its input and emitted
\* pairings.
C10_Witness ==
  /\ pc = "done"
  /\ Len(foundLibraries) < Len(Stacks)
  /\ Len(libraryPairings) > 0

(***************************************************************************)
(* Concurrent audits: several invocations of LargeJavascriptLibraries.audit*)
(* against the same libStats and librarySuggestions, each with its own     *)
(* artifacts and its own locals, interleaved one step at a time.           *)
(***************************************************************************)
MaxConcurrentStacks == 2

Invocations == {"first", "second"}

ConcurrentStacks ==
  { Stack("moment", None, "js"),
    Stack("moment", "2.29.0", "js"),
    Stack("luxon", None, "js") }

ConcurrentLists ==
  UNION { [1..n -> ConcurrentStacks] : n \in 0..MaxConcurrentStacks }

\* Databases with an entry for every package of the groups.
ConcurrentCatalogs ==
  { c \in Catalogs : {"moment", "dayjs", "luxon"} \subseteq DOMAIN c }

\* The locals of an audit that has not started.
NewCall(stacks) ==
  [ Stacks |-> stacks, foundLibraries |-> <<>>, idx |-> 0,
    seenLibraries |-> {}, libraryPairings |-> <<>>, tableDetails |-> <<>>,
    score |-> -1, pc |-> "start" ]

\* Variant in which the dedup Set is one module-level Set for all audits.
seenSetShared(i) == UNION { calls[j].seenLibraries : j \in DOMAIN calls }

\* const seenLibraries = new Set(): a Set of the invocation.
seenSetOf(i) == calls[i].seenLibraries

InitConcurrent ==
  /\ libStats \in ConcurrentCatalogs
  /\ librarySuggestions \in SuggestionMaps
  /\ calls \in { c \in [Invocations -> { NewCall(l) : l \in ConcurrentLists }] :
                   c["first"].Stacks # c["second"].Stacks }
  /\ Stacks = <<>>
  /\ foundLibraries = <<>>
  /\ idx = 0
  /\ seenLibraries = {}
  /\ libraryPairings = <<>>
  /\ tableDetails = <<>>
  /\ score = -1
  /\ pc = "idle"
  /\ BuilderIdle

singleVars == <<libStats, librarySuggestions, Stacks, foundLibraries, idx,
                seenLibraries, libraryPairings, tableDetails, score, pc>>

CallFilterStacks(i) ==
  /\ calls[i].pc = "start"
  /\ calls' = [calls EXCEPT ![i] =
       [@ EXCEPT !.foundLibraries = SelectSeq(calls[i].Stacks, isJsStack),
                 !.Stacks = StacksAfterFilter(calls[i].Stacks),
                 !.idx = 1,
                 !.seenLibraries = {},
                 !.libraryPairings = <<>>,
                 !.pc = "loop"]]
  /\ UNCHANGED <<singleVars, builderVars>>

CallLoopIteration(i) ==
  /\ calls[i].pc = "loop"
  /\ calls[i].idx <= Len(calls[i].foundLibraries)
  /\ LET library == calls[i].foundLibraries[calls[i].idx] IN
       IF skipsLibrary(library) \/ library.npm \in seenSetOf(i)
       THEN calls' = [calls EXCEPT ![i].idx = @ + 1]
       ELSE LET out == pushPairings(getSuggestions(library), library,
                                    resolveVersion(library), calls[i].libraryPairings)
            IN calls' = [calls EXCEPT ![i] =
                 [@ EXCEPT !.seenLibraries = @ \cup {library.npm},
                           !.libraryPairings = out.pairings,
                           !.pc = IF out.threw THEN "threw" ELSE "loop",
                           !.idx = IF out.threw THEN @ ELSE @ + 1]]
  /\ UNCHANGED <<singleVars, builderVars>>

CallLoopExit(i) ==
  /\ calls[i].pc = "loop"
  /\ calls[i].idx > Len(calls[i].foundLibraries)
  /\ calls' = [calls EXCEPT ![i].pc = "table"]
  /\ UNCHANGED <<singleVars, builderVars>>

CallBuildTable(i) ==
  /\ calls[i].pc = "table"
  /\ calls' = [calls EXCEPT ![i] =
       [@ EXCEPT !.tableDetails = makeRows(calls[i].libraryPairings, 1, 0, <<>>),
                 !.pc = "return"]]
  /\ UNCHANGED <<singleVars, builderVars>>

CallReturn(i) ==
  /\ calls[i].pc = "return"
  /\ calls' = [calls EXCEPT ![i] =
       [@ EXCEPT !.score = scoreOf(calls[i].libraryPairings), !.pc = "done"]]
  /\ UNCHANGED <<singleVars, builderVars>>

NextConcurrent ==
  \/ \E i \in Invocations : CallFilterStacks(i)
  \/ \E i \in Invocations : CallLoopIteration(i)
  \/ \E i \in Invocations : CallLoopExit(i)
  \/ \E i \in Invocations : CallBuildTable(i)
  \/ \E i \in Invocations : CallReturn(i)

SpecConcurrent == InitConcurrent /\ [][NextConcurrent]_vars

\* The for-of loop of one audit run by itself, from record i on.
RECURSIVE loopAlone(_, _, _, _)
loopAlone(found, i, seen, pairings) ==
  IF i > Len(found) THEN [pairings |-> pairings, threw |-> FALSE]
  ELSE LET library == found[i] IN
    IF skipsLibrary(library) \/ library.npm \in seen
    THEN loopAlone(found, i + 1, seen, pairings)
    ELSE LET out == pushPairings(getSuggestions(library), library,
                                 resolveVersion(library), pairings)
         IN IF out.threw THEN out
            ELSE loopAlone(found, i + 1, seen \cup {library.npm}, out.pairings)

\* What audit returns for the artifacts when nothing else runs.
auditAlone(stacks) ==
  LET out == loopAlone(SelectSeq(stacks, isJsStack), 1, {}, <<>>) IN
    [ threw |-> out.threw,
      libraryPairings |-> out.pairings,
      tableDetails |-> IF out.threw THEN <<>> ELSE makeRows(out.pairings, 1, 0, <<>>),
      score |-> IF out.threw THEN -1 ELSE scoreOf(out.pairings) ]

\* C11: interleaved audits of different detected-library lists against the
\* same database each end as they end when run alone: same pairings after
\* the loop, same rows and score on return, and a TypeError exactly when the
\* audit alone throws.
C11_InterleavingInvisible ==
  \A i \in DOMAIN calls :
    LET alone == auditAlone(calls[i].Stacks) IN
      /\ calls[i].pc \in {"table", "return", "done"} =>
           /\ ~alone.threw
           /\ calls[i].libraryPairings = alone.libraryPairings
      /\ calls[i].pc \in {"return", "done"} =>
           calls[i].tableDetails = alone.tableDetails
      /\ calls[i].pc = "done" => calls[i].score = alone.score
      /\ calls[i].pc = "threw" =>
           /\ alone.threw
           /\ calls[i].libraryPairings = alone.libraryPairings

\* Two audits in flight at once, neither returned, that both processed the
\* same package name and built different tables.
C11_Witness ==
  /\ DOMAIN calls = Invocations
  /\ calls["first"].pc = "return"
  /\ calls["second"].pc = "return"
  /\ calls["first"].seenLibraries \cap calls["second"].seenLibraries # {}
  /\ Len(calls["first"].tableDetails) > 0
  /\ Len(calls["second"].tableDetails) > 0
  /\ calls["first"].tableDetails # calls["second"].tableDetails

(***************************************************************************)
(* The database builder: hasBeenRecentlyScraped, validateLibraryObject,    *)
(* collectLibraryStats and the main loop of the script that scrapes        *)
(* BundlePhobia with bundle-phobia-cli and saves the database.             *)
(***************************************************************************)
MaxTicks == 1
MaxRuns == 2

\* lastScraped = 'Error'
ErrorSentinel == -1

\* (Date.now() - lastScraped) / (1000 * 60 * 60) < 1
FreshHours == 1

\* getPackageVersionList(library, 10)
VersionLimit == 10

\* The time of the first run: eight days, in hours, after time 0.
StartTime == 8 * 24

\* The suggestion groups the builder reads (suggestionsJSON).
BuilderMaps == { << <<"moment", "dayjs">> >> }

\* Object.keys of the suggestions array: "0", "1", ...
KeyNames == <<"0", "1", "2">>

RECURSIVE Flatten(_)
Flatten(groups) ==
  IF groups = <<>> THEN <<>> ELSE Head(groups) \o Flatten(Tail(groups))

\* [].concat(...Object.values(suggestionsJSON)).concat(Object.keys(suggestionsJSON))
librarySuggestionsList ==
  Flatten(librarySuggestions) \o [k \in 1..Len(librarySuggestions) |-> KeyNames[k]]

\* What the registry lists for a package, newest first.
Published ==
  "moment" :> <<"2.30.1", "2.29.0">> @@ "dayjs" :> <<"1.8.0", "1.7.9">> @@
  "0" :> <<"0.0.1">>

GzipOf ==
  "2.30.1" :> 20000 @@ "2.29.0" :> 21000 @@ "2.28.0" :> 19000 @@ "1.7.0" :> 2900 @@
  "1.7.9" :> 2950 @@
  "1.8.0" :> 3000 @@ "0.0.1" :> 100

AllFields == {"name", "size", "gzip", "description", "repository", "version"}

\* A BundlePhobia JSON object: the fields it has and the values the builder reads.
Library(name, version, fields) ==
  [ name |-> name, version |-> version, gzip |-> GzipOf[version],
    repository |-> name, fields |-> fields ]

\* Version strings of the form '<N> packages'.
PackagesStrings == {"3 packages"}

\* The packages for which fetchPackageStats misbehaves in the runs modelled:
\* the first package of each group.
Unreliable(name) ==
  \E g \in 1..Len(librarySuggestions) : librarySuggestions[g][1] = name

\* What fetchPackageStats may resolve with for a version of a package: the
\* full object and, for an unreliable package, an object without the size
\* field (newest version) or an object whose version is a '<N> packages'
\* string (older version).
StatsOf(name, version) ==
  IF ~Unreliable(name)
  THEN { Library(name, version, AllFields) }
  ELSE IF version = Published[name][1]
  THEN { Library(name, version, AllFields),
         Library(name, version, AllFields \ {"size"}) }
  ELSE { Library(name, version, AllFields),
         [Library(name, version, AllFields) EXCEPT !.version = "3 packages"] }

NoLibrary == [name |-> "", version |-> "", gzip |-> 0, repository |-> "", fields |-> {}]

\* An entry as the builder writes it.
Entry(name, version, scraped) ==
  "lastScraped" :> scraped @@ "repository" :> name @@
  version :> [gzip |-> GzipOf[version]] @@ "latest" :> [gzip |-> GzipOf[version]]

\* Database files of earlier runs: per package no entry, or an entry scraped
\* in this hour, eight days ago, or marked 'Error'.
StoredEntries ==
  "moment" :> { Entry("moment", "2.28.0", t) : t \in {StartTime, 0, ErrorSentinel} } @@
  "dayjs" :> { Entry("dayjs", "1.7.0", t) : t \in {StartTime, 0, ErrorSentinel} }

StoredDatabases ==
  UNION { { f \in [S -> UNION { StoredEntries[n] : n \in DOMAIN StoredEntries }] :
              \A n \in S : f[n] \in StoredEntries[n] } :
          S \in SUBSET DOMAIN StoredEntries }

\* Variant with no window at all.
isAnyAge(hours) == TRUE

\* (Date.now() - lastScraped) / (1000 * 60 * 60) < 1
isWithinWindow(hours) == hours < FreshHours

\* Variant that takes a failed scrape for a recent one.
hasBeenScrapedOrFailed(library) ==
  /\ Has(database, library)
  /\ \/ database[library]["lastScraped"] = ErrorSentinel
     \/ isWithinWindow(now - database[library]["lastScraped"])

hasBeenRecentlyScraped(library) ==
  IF ~Has(database, library) \/ database[library]["lastScraped"] = ErrorSentinel
  THEN FALSE
  ELSE isWithinWindow(now - database[library]["lastScraped"])

\* Variant that checks the fields only.
validateFieldsOnly(library) == AllFields \subseteq library.fields

validateLibraryObject(library) ==
  /\ AllFields \subseteq library.fields
  /\ library.version \notin PackagesStrings

\* Variant that marks the second record as the latest.
isSecondIndex(i) == i = 1

\* index === 0
isFirstIndex(i) == i = 0

\* {...object, [key]: value}
Spread(object, key, value) == (key :> value) @@ object

\* database[name], or {} when there is none (spreading undefined adds nothing).
EntryOf(db, name) == IF Has(db, name) THEN db[name] ELSE <<>>

\* Variant that drops what the entry held.
SetOnlyVersion(db, library) ==
  (library.name :> (library.version :> [gzip |-> library.gzip])) @@ db

\* database[library.name] = {...database[library.name], [library.version]: {gzip}}
SetVersion(db, library) ==
  (library.name :> Spread(EntryOf(db, library.name), library.version,
                          [gzip |-> library.gzip])) @@ db

\* Variant that keeps a 'latest' the entry already has.
KeepLatest(entry, version) == entry @@ ("latest" :> entry[version])

\* database[name]['latest'] = database[name][library.version]
SetLatest(entry, version) == Spread(entry, "latest", entry[version])

\* Variant in which the new repository and lastScraped replace the old ones.
SetMetadataLast(db, library, scraped) ==
  LET entry == ("repository" :> library.repository @@ "lastScraped" :> scraped)
                 @@ db[library.name]
  IN (library.name :> SetLatest(entry, library.version)) @@ db

\* database[name] = {repository, lastScraped, ...database[name]};
\* database[name]['latest'] = database[name][library.version]
SetMetadata(db, library, scraped) ==
  LET entry == db[library.name]
                 @@ ("repository" :> library.repository @@ "lastScraped" :> scraped)
  IN (library.name :> SetLatest(entry, library.version)) @@ db

\* Variant that leaves the entry's lastScraped as the first object set it.
SetNothing(db, library) == db

\* if (lastScraped === 'Error') database[name] = {...database[name], lastScraped}
SetError(db, library) ==
  (library.name :> Spread(db[library.name], "lastScraped", ErrorSentinel)) @@ db

\* The body of the merge loop for libraries[i] (i counted from 0).
mergeLibrary(db, library, i, scraped) ==
  LET d1 == SetVersion(db, library)
      d2 == IF isFirstIndex(i) THEN SetMetadata(d1, library, scraped) ELSE d1
  IN IF scraped = ErrorSentinel THEN SetError(d2, library) ELSE d2

\* for (let index = 0; index < libraries.length; index++) {...}
RECURSIVE mergeLibraries(_, _, _, _)
mergeLibraries(db, libs, i, scraped) ==
  IF i >= Len(libs) THEN db
  ELSE mergeLibraries(mergeLibrary(db, libs[i + 1], i, scraped), libs, i + 1, scraped)

\* getPackageVersionList(library, limit): the newest `limit` versions.
getPackageVersionList(library, limit) ==
  SubSeq(Published[library], 1, Min({limit, Len(Published[library])}))

\* The package the main loop is at.
currentLibrary == librarySuggestionsList[index]

\* One record of the history of a run: the package visited, the time, the
\* entry it had, whether the version list was requested and what came back.
Visit(library, called) ==
  [ library |-> library, at |-> now, called |-> called,
    had |-> Has(database, library),
    last |-> IF Has(database, library) THEN database[library]["lastScraped"] ELSE 0,
    listed |-> FALSE, outcomes |-> <<>> ]

audits == <<singleVars, calls>>

InitBuilder ==
  /\ librarySuggestions \in BuilderMaps
  /\ file \in StoredDatabases
  /\ database = file
  /\ now = StartTime
  /\ index = 1
  /\ bpc = "main"
  /\ run = 1
  /\ lastScraped = 0
  /\ versions = <<>>
  /\ vIndex = 0
  /\ libraries = <<>>
  /\ returned = <<>>
  /\ visited = <<>>
  /\ previous = <<>>
  /\ libStats = <<>>
  /\ Stacks = <<>>
  /\ foundLibraries = <<>>
  /\ idx = 0
  /\ seenLibraries = {}
  /\ libraryPairings = <<>>
  /\ tableDetails = <<>>
  /\ score = -1
  /\ pc = "idle"
  /\ calls = <<>>

\* An hour passes before a run scrapes its first package (a run itself
\* takes less than an hour).
Tick ==
  /\ bpc = "main"
  /\ index = 1
  /\ now < StartTime + MaxTicks
  /\ now' = now + 1
  /\ UNCHANGED <<database, file, index, bpc, lastScraped, versions, vIndex,
                 libraries, run, returned, visited, previous, audits>>

\* Variant of a loop that does not wait for the step it started.
stepNotAwaited == bpc \in {"main", "versions", "stats"}

\* await collectLibraryStats(...): the loop goes on when the promise of the
\* step before has resolved.
stepSettled == bpc = "main"

\* collectLibraryStats for a recently scraped package: resolve at once.
SkipPackage ==
  /\ stepSettled
  /\ index <= Len(librarySuggestionsList)
  /\ hasBeenRecentlyScraped(currentLibrary)
  /\ visited' = Append(visited, Visit(currentLibrary, FALSE))
  /\ index' = index + 1
  /\ UNCHANGED <<database, file, bpc, now, lastScraped, versions, vIndex,
                 libraries, run, returned, previous, audits>>

\* collectLibraryStats for any other package, up to the request for its
\* version list.
StartPackage ==
  /\ stepSettled
  /\ index <= Len(librarySuggestionsList)
  /\ ~hasBeenRecentlyScraped(currentLibrary)
  /\ libraries' = <<>>
  /\ lastScraped' = now
  /\ versions' = <<>>
  /\ vIndex' = 0
  /\ returned' = <<>>
  /\ visited' = Append(visited, Visit(currentLibrary, TRUE))
  /\ bpc' = "versions"
  /\ UNCHANGED <<database, file, index, now, run, previous, audits>>

\* The merge loop, resolve(), and the main loop's step to the next package.
Merge(libs, scraped, outcomes) ==
  /\ database' = mergeLibraries(database, libs, 0, scraped)
  /\ visited' = [visited EXCEPT ![Len(visited)] =
                   [@ EXCEPT !.listed = TRUE, !.outcomes = outcomes]]
  /\ index' = index + 1
  /\ bpc' = "main"

\* The version list arrives.
VersionListResolves ==
  /\ bpc = "versions"
  /\ versions' = getPackageVersionList(currentLibrary, VersionLimit)
  /\ IF versions' = <<>>
     THEN /\ Merge(libraries, lastScraped, returned)
          /\ UNCHANGED vIndex
     ELSE /\ vIndex' = 1
          /\ bpc' = "stats"
          /\ visited' = [visited EXCEPT ![Len(visited)] = [@ EXCEPT !.listed = TRUE]]
          /\ UNCHANGED <<database, index>>
  /\ UNCHANGED <<file, now, lastScraped, libraries, run, returned, previous, audits>>

\* The request for the version list fails: the await outside any try throws
\* inside the promise's async executor, so the promise is never settled and
\* the main loop never resumes.
VersionListRejects ==
  /\ bpc = "versions"
  /\ bpc' = "hung"
  /\ UNCHANGED <<database, file, index, now, lastScraped, versions, vIndex,
                 libraries, run, returned, visited, previous, audits>>

\* What follows one fetchPackageStats: the next version, or the merge.
AfterStats(libs, scraped, outcomes) ==
  /\ libraries' = libs
  /\ lastScraped' = scraped
  /\ returned' = outcomes
  /\ IF vIndex < Len(versions)
     THEN /\ vIndex' = vIndex + 1
          /\ UNCHANGED <<database, visited, index, bpc>>
     ELSE /\ Merge(libs, scraped, outcomes)
          /\ UNCHANGED vIndex
  /\ UNCHANGED <<file, now, versions, run, previous, audits>>

\* fetchPackageStats resolves with an object, which is kept when it is valid.
StatsResolve ==
  /\ bpc = "stats"
  /\ \E libraryJSON \in StatsOf(currentLibrary, versions[vIndex]) :
       AfterStats(IF validateLibraryObject(libraryJSON)
                  THEN Append(libraries, libraryJSON) ELSE libraries,
                  lastScraped,
                  Append(returned, [rejected |-> FALSE, library |-> libraryJSON]))

\* fetchPackageStats rejects: catch (e) { lastScraped = 'Error'; }
StatsReject ==
  /\ bpc = "stats"
  /\ Unreliable(currentLibrary)
  /\ AfterStats(libraries, ErrorSentinel,
                Append(returned, [rejected |-> TRUE, library |-> NoLibrary]))

\* After the loop: fs.writeFile(databasePath, JSON.stringify(database))
Save ==
  /\ bpc = "main"
  /\ index > Len(librarySuggestionsList)
  /\ file' = database
  /\ bpc' = "saved"
  /\ UNCHANGED <<database, index, now, lastScraped, versions, vIndex,
                 libraries, run, returned, visited, previous, audits>>

\* When every fetch of a visit succeeded: some object came back and none
\* was rejected.
Succeeded(v) ==
  /\ v.listed
  /\ v.outcomes # <<>>
  /\ \A k \in 1..Len(v.outcomes) : ~v.outcomes[k].rejected

\* When a visit kept at least one valid object.
KeptSome(v) ==
  \E k \in 1..Len(v.outcomes) :
    ~v.outcomes[k].rejected /\ validateLibraryObject(v.outcomes[k].library)

\* What is remembered of a visit of the previous run.
Summary(v) ==
  [ library |-> v.library, at |-> v.at, called |-> v.called,
    succeeded |-> Succeeded(v), kept |-> KeptSome(v) ]

\* The script is started again: database = require(databasePath)
Restart ==
  /\ bpc = "saved"
  /\ run < MaxRuns
  /\ run' = run + 1
  /\ database' = file
  /\ index' = 1
  /\ bpc' = "main"
  /\ previous' = [k \in 1..Len(visited) |-> Summary(visited[k])]
  /\ visited' = <<>>
  /\ UNCHANGED <<file, now, lastScraped, versions, vIndex, libraries,
                 returned, audits>>

NextBuilder ==
  \/ Tick
  \/ SkipPackage
  \/ StartPackage
  \/ VersionListResolves
  \/ VersionListRejects
  \/ StatsResolve
  \/ StatsReject
  \/ Save
  \/ Restart

SpecBuilder == InitBuilder /\ [][NextBuilder]_vars

(***************************************************************************)
(* Properties of the database builder                                      *)
(***************************************************************************)
Visits == { visited[k] : k \in 1..Len(visited) }

PreviousVisits == { previous[k] : k \in 1..Len(previous) }

\* The package had an entry with a real scrape time when the run reached it.
HadScrapeTime(v) == v.had /\ v.last # ErrorSentinel

\* C12: a package whose entry records a scrape within the freshness window,
\* and no error, is skipped with no request to the service; a package whose
\* last scrape is eight days old is scraped again.
C12_FreshSkippedStaleScraped ==
  \A v \in Visits :
    /\ (HadScrapeTime(v) /\ v.at - v.last < FreshHours)
         => (~v.called /\ ~v.listed /\ v.outcomes = <<>>)
    /\ (HadScrapeTime(v) /\ v.at - v.last >= 8 * 24) => v.called

C12_Witness ==
  /\ \E v \in Visits : HadScrapeTime(v) /\ v.at - v.last < FreshHours /\ ~v.called
  /\ \E v \in Visits : HadScrapeTime(v) /\ v.at - v.last >= 8 * 24 /\ v.called
                         /\ v.outcomes # <<>>

\* C13: a package whose entry carries the error sentinel is never taken for
\* fresh, at any time and in any run: the run that reaches it asks the
\* service for it.
C13_ErrorNeverFresh ==
  \A v \in Visits : (v.had /\ v.last = ErrorSentinel) => v.called

C13_Witness ==
  /\ run = 2
  /\ now > StartTime
  /\ \E v \in Visits :
       /\ v.had /\ v.last = ErrorSentinel /\ v.called
       /\ \E u \in PreviousVisits :
            /\ u.library = v.library
            /\ u.called /\ ~u.succeeded

\* Every fetch of the visit was rejected: the service gave no object at all.
FailedEntirely(v) ==
  /\ v.called /\ v.listed
  /\ v.outcomes # <<>>
  /\ \A k \in 1..Len(v.outcomes) : v.outcomes[k].rejected

\* C14: when the scrape of a package fails entirely during a run (errors
\* only, no object), the saved entry of the package carries the error
\* sentinel, also when the package had no entry before the run.
C14_TotalFailureMarked ==
  bpc = "saved" =>
    \A v \in Visits :
      FailedEntirely(v) =>
        /\ Has(file, v.library)
        /\ file[v.library]["lastScraped"] = ErrorSentinel

\* C15: a failed fetch never aborts the batch and nothing escapes the step
\* of one package: the main loop is never left waiting on a step that threw.
C15_BatchNeverAborts == bpc # "hung"

\* C16: after a run in which every fetch for a package succeeded and gave at
\* least one valid object, the saved entry of the package holds the time of
\* that scrape, whatever entry the package had before.
C16_ScrapeTimeRecorded ==
  bpc = "saved" =>
    \A v \in Visits :
      (v.called /\ Succeeded(v) /\ KeptSome(v)) =>
        /\ Has(file, v.library)
        /\ file[v.library]["lastScraped"] = v.at

\* Every scrape of the previous run succeeded and kept a valid object.
PreviousRunSucceeded ==
  /\ previous # <<>>
  /\ \A u \in PreviousVisits : u.called => (u.succeeded /\ u.kept)

\* C17: a second run started from the output of a run whose scrapes all
\* succeeded, within the freshness window, asks the service for nothing and
\* leaves the database as the first run saved it.
C17_SecondRunIdempotent ==
  (/\ run > 1
   /\ PreviousRunSucceeded
   /\ \A u \in PreviousVisits : now - u.at < FreshHours)
    => /\ \A v \in Visits : ~v.called
       /\ database = file

\* A package's step ends in this step: the merge loop runs.
Merging == bpc \in {"versions", "stats"} /\ bpc' = "main"

\* The object lacks a required field or its version reads '<N> packages'.
Discarded(library) ==
  \/ \E f \in AllFields : f \notin library.fields
  \/ library.version \in PackagesStrings

\* The record of a version of a package, or <<>> when there is none.
RecordOf(db, name, version) ==
  IF Has(db, name) /\ Has(db[name], version) THEN db[name][version] ELSE <<>>

\* C18: an object that lacks a required field, or whose version reads
\* '<N> packages', is discarded: the merge writes no record for it. The
\* other objects returned for the same package are all merged.
C18_InvalidDiscardedSiblingsMerged ==
  [][Merging =>
       \A k \in 1..Len(returned') :
         LET library == returned'[k].library
             name == visited[Len(visited)].library
         IN IF returned'[k].rejected THEN TRUE
            ELSE IF Discarded(library)
            THEN /\ RecordOf(database', name, library.version)
                      = RecordOf(database, name, library.version)
                 /\ library.version \in PackagesStrings
                      => RecordOf(database', name, library.version) = <<>>
            ELSE RecordOf(database', name, library.version)
                   = [gzip |-> library.gzip]]_vars

C18_Witness ==
  /\ bpc = "main"
  /\ Len(returned) = 2
  /\ \E j, k \in 1..Len(returned) :
       /\ ~returned[j].rejected /\ Discarded(returned[j].library)
       /\ returned[j].library.version \in PackagesStrings
       /\ ~returned[k].rejected /\ ~Discarded(returned[k].library)
       /\ RecordOf(database, returned[k].library.name, returned[k].library.version)
            = [gzip |-> returned[k].library.gzip]
       /\ RecordOf(database, returned[j].library.name, "3 packages") = <<>>

\* The keys of an entry that are not version records of their own.
MetaKeys == {"lastScraped", "repository", "latest"}

\* C19: the merge of a scrape of a package writes the record of every
\* validated version, and leaves every other version record of the package
\* and the whole entry of every other package as it was; no step of the
\* builder removes or alters any other record.
C19_MergeKeepsOtherRecords ==
  [][/\ \A n \in DOMAIN database :
          /\ Has(database', n)
          /\ IF Merging /\ n = visited[Len(visited)].library
             THEN \A k \in (DOMAIN database[n]) \ MetaKeys :
                    (\A i \in 1..Len(libraries') : libraries'[i].version # k)
                      => RecordOf(database', n, k) = database[n][k]
             ELSE database'[n] = database[n]
     /\ Merging =>
          \A i \in 1..Len(libraries') :
            RecordOf(database', visited[Len(visited)].library, libraries'[i].version)
              = [gzip |-> libraries'[i].gzip]]_vars

C19_Witness ==
  /\ bpc = "main"
  /\ index > 2
  /\ RecordOf(database, "moment", "2.28.0") = [gzip |-> GzipOf["2.28.0"]]
  /\ RecordOf(database, "moment", "2.30.1") = [gzip |-> GzipOf["2.30.1"]]
  /\ RecordOf(database, "dayjs", "1.7.0") = [gzip |-> GzipOf["1.7.0"]]
  /\ \E v \in Visits : v.library = "dayjs" /\ ~v.called

\* C20: in every database the builder reaches, from the empty one or from
\* one it saved before, an entry with at least one version record also has
\* the key 'latest'.
C20_LatestWithAnyVersion ==
  \A db \in {database, file} :
    \A n \in DOMAIN db :
      (DOMAIN db[n]) \ MetaKeys # {} => Has(db[n], "latest")

\* The run started from the empty database: no stored record is there.
C20_Witness ==
  /\ bpc = "saved"
  /\ DOMAIN file = {"moment", "dayjs", "0"}
  /\ RecordOf(file, "moment", "2.28.0") = <<>>
  /\ RecordOf(file, "dayjs", "1.7.0") = <<>>
  /\ \A n \in DOMAIN file : Has(file[n], "latest") /\ (DOMAIN file[n]) \ MetaKeys # {}

\* C21: after a scrape of a package that kept at least one valid object,
\* the entry's 'latest' is the record of the first valid object in scrape
\* order, the same value as the record under that object's version, whatever
\* 'latest' held before.
C21_LatestIsFirstValidated ==
  [][(Merging /\ libraries' # <<>>) =>
       LET name == visited[Len(visited)].library
           first == libraries'[1]
       IN /\ RecordOf(database', name, "latest") = [gzip |-> first.gzip]
          /\ RecordOf(database', name, "latest")
               = RecordOf(database', name, first.version)]_vars

\* The entry had another 'latest' before, and the newest version was not the
\* first valid object.
C21_Witness ==
  /\ bpc = "main"
  /\ visited # <<>>
  /\ LET v == visited[Len(visited)]
     IN /\ v.library = "moment" /\ v.had /\ v.called
        /\ Len(v.outcomes) = 2
        /\ ~v.outcomes[1].rejected /\ Discarded(v.outcomes[1].library)
        /\ ~v.outcomes[2].rejected /\ ~Discarded(v.outcomes[2].library)
        /\ RecordOf(database, "moment", "2.28.0") # <<>>
        /\ database["moment"]["latest"] = [gzip |-> GzipOf["2.29.0"]]
        /\ database["moment"]["latest"] # database["moment"]["2.28.0"]

\* The package names of the suggestion groups, oversized or alternative.
SuggestedNames ==
  { Flatten(librarySuggestions)[k] : k \in 1..Len(Flatten(librarySuggestions)) }

\* C22: a run visits exactly the names of the suggestion groups, each once:
\* no other name is visited, none is visited twice, and at the end of the
\* run every name has been visited.
C22_VisitsExactlyTheNames ==
  /\ \A v \in Visits : v.library \in SuggestedNames
  /\ \A j, k \in 1..Len(visited) : j # k => visited[j].library # visited[k].library
  /\ bpc = "saved" => \A n \in SuggestedNames : \E v \in Visits : v.library = n

\* A name that the suggestions list only as an alternative: a member of a
\* group that is neither the first of a group nor a key.
AlternativeOnly(name) ==
  /\ name \in SuggestedNames
  /\ \A g \in 1..Len(librarySuggestions) :
       librarySuggestions[g][1] # name /\ KeyNames[g] # name

\* C23: a scrape fetches at most 10 versions of a package, and only the most
\* recent version of a package that is only an alternative, so that such a
\* package gains at most one version record in a run.
C23_AlternativeFetchesOneVersion ==
  \A v \in Visits :
    /\ Len(v.outcomes) <= VersionLimit
    /\ AlternativeOnly(v.library) => Len(v.outcomes) <= 1

\* The scrape of the visit is over: the package was skipped, or the stats of
\* all its versions came back and were merged.
Completed(v) ==
  \/ ~v.called
  \/ /\ v.listed
     /\ Len(v.outcomes) = Len(getPackageVersionList(v.library, VersionLimit))

\* The package of the last visit has a request to the service in flight.
InFlight == bpc \in {"versions", "stats", "hung"}

\* C24: the builder scrapes one package at a time: only the package visited
\* last can have a request in flight, and when the scrape of a package
\* begins, the scrape and merge of every package before it are over.
C24_OnePackageAtATime ==
  \A k \in 1..Len(visited) :
    (k < Len(visited) \/ ~InFlight) => Completed(visited[k])

C24_Witness ==
  /\ bpc = "stats"
  /\ Len(visited) = 2
  /\ visited[1].called /\ Len(visited[1].outcomes) = 2
  /\ Has(database, visited[1].library)
  /\ visited[2].called /\ visited[2].outcomes = <<>>

\* The steps the script takes on its own, with no answer from the service.
LoopStep == SkipPackage \/ StartPackage \/ Save

\* C25: a package whose request is never answered cannot stall the batch:
\* while a request is waiting for its answer, the script is still able to go
\* on to the other packages and to the save.
C25_UnansweredRequestDoesNotStall ==
  bpc \in {"versions", "stats"} => ENABLED LoopStep

\* Every request of the run has been answered and nothing was saved yet.
AllAnswered == bpc \notin {"versions", "stats", "saved"}

\* C26: in a run in which every request is answered, by a result or by an
\* error, the database is written once, after the loop over the packages has
\* ended: the file holds the database of the end of the loop, and while
\* nothing is saved and no answer is awaited the script can go on towards
\* the save.
C26_SavedOnceAfterLoop ==
  /\ bpc = "saved" => (index > Len(librarySuggestionsList) /\ file = database)
  /\ AllAnswered => ENABLED LoopStep

\* Some fetch of the visit was rejected.
SomeRejected(v) == \E k \in 1..Len(v.outcomes) : v.outcomes[k].rejected

\* C27: when the stats fetch fails for some versions of a package and gives a
\* valid object for at least one, the valid objects are merged, the entry's
\* lastScraped is 'Error' whatever it was before, and the next run scrapes
\* the package again.
C27_PartialFailureMarkedError ==
  /\ \A v \in Visits :
       (Completed(v) /\ SomeRejected(v) /\ KeptSome(v)) =>
         /\ Has(database, v.library)
         /\ database[v.library]["lastScraped"] = ErrorSentinel
         /\ \A k \in 1..Len(v.outcomes) :
              (~v.outcomes[k].rejected /\ ~Discarded(v.outcomes[k].library)) =>
                RecordOf(database, v.library, v.outcomes[k].library.version)
                  = [gzip |-> v.outcomes[k].library.gzip]
  /\ \A u \in PreviousVisits :
       (u.called /\ ~u.succeeded /\ u.kept) =>
         \A v \in Visits : v.library = u.library => v.called

C27_Witness ==
  /\ bpc = "saved"
  /\ \E v \in Visits :
       /\ v.had /\ v.last = 0
       /\ Completed(v) /\ SomeRejected(v) /\ KeptSome(v)
       /\ file[v.library]["lastScraped"] = ErrorSentinel
       /\ RecordOf(file, v.library, "2.29.0") = [gzip |-> GzipOf["2.29.0"]]

(***************************************************************************)
(* Further properties of the audit                                         *)
(***************************************************************************)
\* C28: no pairing suggests a library as an alternative to itself, also when
\* the detected version of the library is larger than its own latest version.
C28_NeverSuggestsItself ==
  /\ \A k \in PairingIndices :
       libraryPairings[k].suggestion.name # libraryPairings[k].original.name
  /\ \A k \in 1..Len(tableDetails) :
       tableDetails[k].suggestion # libraryPairings[k].original.name

\* The detected moment 2.29.0 is larger than moment's latest and got pairings.
C28_Witness ==
  /\ pc = "done"
  /\ Has(libStats, "moment")
  /\ Has(libStats["moment"], "latest") /\ Has(libStats["moment"], "2.29.0")
  /\ libStats["moment"]["latest"].gzip < libStats["moment"]["2.29.0"].gzip
  /\ \E k \in PairingIndices :
       /\ libraryPairings[k].original = libStats["moment"]["2.29.0"]
       /\ libraryPairings[k].suggestion.name = "dayjs"

\* The records of the artifact whose detector tag is 'js'.
JsRecords == SelectSeq(Stacks, LAMBDA stack : stack.detector = "js")

\* C29: only the records whose detector is 'js' are considered. A record of
\* another detector never enters the dedup set and never produces a pairing,
\* so the audit ends as it does on the 'js' records alone, and such a record
\* cannot suppress a later 'js' record of the same package.
C29_OnlyJsRecords ==
  LET alone == auditAlone(JsRecords) IN
    /\ seenLibraries \subseteq { JsRecords[i].npm : i \in 1..Len(JsRecords) }
    /\ LoopCompleted =>
         /\ ~alone.threw
         /\ libraryPairings = alone.libraryPairings
    /\ pc = "threw" => alone.threw
    /\ pc = "done" => tableDetails = alone.tableDetails

\* A 'webpack' record of moment 2.29.0 comes before a 'js' record of moment
\* with no version, and the pairings are those of the 'js' record.
C29_Witness ==
  /\ pc = "done"
  /\ Len(Stacks) >= 2
  /\ Stacks[1] = Stack("moment", "2.29.0", "webpack")
  /\ Stacks[2] = Stack("moment", None, "js")
  /\ Has(libStats, "moment")
  /\ Has(libStats["moment"], "latest") /\ Has(libStats["moment"], "2.29.0")
  /\ libraryPairings # <<>>
  /\ \A k \in PairingIndices : libraryPairings[k].original = libStats["moment"]["latest"]

\* C30: in the table, the alternatives of each original are numbered 1, 2,
\* ... in the order of the rows, starting again at 1 for every original, and
\* the original's name and URL are shown on the row numbered 1 of its group
\* and are empty on its other rows.
C30_RowsNumberedPerOriginal ==
  pc \in {"return", "done"} =>
    /\ Len(tableDetails) = Len(libraryPairings)
    /\ \A k \in 1..Len(tableDetails) :
         LET original == libraryPairings[k].original
             before == { j \in 1..k : libraryPairings[j].original.name = original.name }
         IN /\ tableDetails[k].number = Cardinality(before)
            /\ tableDetails[k].number = 1 =>
                 /\ tableDetails[k].name = original.name
                 /\ tableDetails[k].url = original.repository
            /\ tableDetails[k].number # 1 =>
                 /\ tableDetails[k].name = ""
                 /\ tableDetails[k].url = ""

\* Two originals, the first with two alternatives: the rows are numbered
\* 1, 2, 1.
C30_Witness ==
  /\ pc = "done"
  /\ Len(tableDetails) = 3
  /\ tableDetails[1].number = 1 /\ tableDetails[1].name = "moment"
  /\ tableDetails[2].number = 2 /\ tableDetails[2].name = ""
  /\ tableDetails[3].number = 1 /\ tableDetails[3].name = "luxon"
  /\ tableDetails[3].url = Repository["luxon"]

====
